---- MODULE Spec2Model ----
(***************************************************************************)
(* Model of plugins/modules/dellemc_powermax_host.py: the PowerMaxHost     *)
(* reconciler (perform_module_operation and the methods it calls), run     *)
(* against a remote array that holds the host records.                     *)
(*                                                                         *)
(* Encoding of Python values:                                              *)
(*   None / x        -> <<>> / <<x>>   (an optional value)                 *)
(*   True, 'unset'   -> PyBool(TRUE), PyStr("unset")  (a raw flag value)   *)
(*   a dict in insertion order -> a sequence of <<key, value>> pairs       *)
(*   a flag dict     -> a function from keys to flag states, with the key  *)
(*                      "consistent_lun" mapped to a BOOLEAN               *)
(*   a text such as "SCSI_3(Ovrd),OpenVMS" -> the sequence of its symbols  *)
(*        <<"SCSI_3", "(", "Ovrd", ")", ",", "OpenVMS">>                   *)
(***************************************************************************)
EXTENDS Integers, Sequences, FiniteSets, TLC

(***************************************************************************)
(* Bounds of the model                                                     *)
(***************************************************************************)
\* runs of the same task made one after the other by one process
MaxRuns == 2
\* longest requested initiators list
MaxReq == 2

Procs == {1, 2}
Names == {"H1", "H2"}
Initiators == {"a", "b"}
\* a fixed order, used where a set is turned into a list
InitiatorOrder == <<"a", "b">>

None == <<>>
Some(x) == <<x>>

(***************************************************************************)
(* Raw flag values of the playbook                                         *)
(***************************************************************************)
PyBool(b) == [kind |-> "bool", b |-> b, s |-> ""]
PyStr(s) == [kind |-> "str", b |-> FALSE, s |-> s]

\* v is True / v is False
IsTrue(v) == v.kind = "bool" /\ v.b
IsFalse(v) == v.kind = "bool" /\ ~v.b
\* v in [s1, s2, ...]
InStrs(v, S) == v.kind = "str" /\ v.s \in S

(***************************************************************************)
(* Names of flags, their text on the remote side, and str.lower()          *)
(***************************************************************************)
host_flags_list ==
    {"volume_set_addressing", "environ_set", "disable_q_reset_on_ua",
     "openvms", "avoid_reset_broadcast", "scsi_3", "spc2_protocol_version",
     "scsi_support1"}

\* the order in which the remote lists flags in its report
KeyOrder ==
    <<"volume_set_addressing", "environ_set", "disable_q_reset_on_ua",
      "openvms", "avoid_reset_broadcast", "scsi_3", "spc2_protocol_version",
      "scsi_support1", "scsi3">>

\* the remote's spelling of a flag name
Display(k) ==
    CASE k = "volume_set_addressing" -> "Volume_Set_Addressing"
      [] k = "environ_set" -> "Environ_Set"
      [] k = "disable_q_reset_on_ua" -> "Disable_Q_Reset_On_UA"
      [] k = "openvms" -> "OpenVMS"
      [] k = "avoid_reset_broadcast" -> "Avoid_Reset_Broadcast"
      [] k = "scsi_3" -> "SCSI_3"
      [] k = "spc2_protocol_version" -> "SPC2_Protocol_Version"
      [] k = "scsi_support1" -> "SCSI_Support1"
      [] k = "scsi3" -> "SCSI3"
      [] OTHER -> k

\* str.lower() on the strings of the model
Lower(s) ==
    CASE s = "Volume_Set_Addressing" -> "volume_set_addressing"
      [] s = "Environ_Set" -> "environ_set"
      [] s = "Disable_Q_Reset_On_UA" -> "disable_q_reset_on_ua"
      [] s = "OpenVMS" -> "openvms"
      [] s = "Avoid_Reset_Broadcast" -> "avoid_reset_broadcast"
      [] s = "SCSI_3" -> "scsi_3"
      [] s = "SPC2_Protocol_Version" -> "spc2_protocol_version"
      [] s = "SCSI_Support1" -> "scsi_support1"
      [] s = "SCSI3" -> "scsi3"
      [] s = "Ovrd" -> "ovrd"
      [] OTHER -> s

(***************************************************************************)
(* Flag dictionaries                                                       *)
(***************************************************************************)
Put(d, k, v) == [x \in (DOMAIN d) \cup {k} |-> IF x = k THEN v ELSE d[x]]
EmptyDict == [x \in {} |-> FALSE]

EnabledState == [enabled |-> TRUE, override |-> TRUE]
DisabledState == [enabled |-> FALSE, override |-> TRUE]
DefaultState == [enabled |-> FALSE, override |-> FALSE]

_set_to_enable(host_flag_name, host_flag_dict) ==
    Put(host_flag_dict, Lower(host_flag_name), EnabledState)

_set_to_disable(host_flag_name, host_flag_dict) ==
    Put(host_flag_dict, Lower(host_flag_name), DisabledState)

_set_to_default(host_flag_name, host_flag_dict) ==
    Put(host_flag_dict, Lower(host_flag_name), DefaultState)

_disable_consistent_lun(host_flag_dict) ==
    Put(host_flag_dict, "consistent_lun", FALSE)

_enable_consistent_lun(host_flag_dict) ==
    Put(host_flag_dict, "consistent_lun", TRUE)

\* a raw dict: keys, lookup
DictKeys(raw) == {raw[i][1] : i \in 1..Len(raw)}
DictGet(raw, k) == raw[CHOOSE i \in 1..Len(raw) : raw[i][1] = k][2]

\* the loop of _create_host_flags_dict over host_flags_list: the order of
\* the loop does not matter, each name sets its own key
RECURSIVE CreateFlagsLoop(_, _, _)
CreateFlagsLoop(todo, received_host_flags, d) ==
    IF todo = {} THEN d
    ELSE LET host_flag_name == CHOOSE n \in todo : TRUE
             d2 == IF \/ host_flag_name \notin DictKeys(received_host_flags)
                      \/ InStrs(DictGet(received_host_flags, host_flag_name),
                                {"unset", "Unset"})
                   THEN _set_to_default(host_flag_name, d)
                   ELSE IF \/ IsFalse(DictGet(received_host_flags,
                                              host_flag_name))
                           \/ InStrs(DictGet(received_host_flags,
                                             host_flag_name),
                                     {"false", "False"})
                        THEN _set_to_disable(host_flag_name, d)
                        ELSE _set_to_enable(host_flag_name, d)
         IN CreateFlagsLoop(todo \ {host_flag_name}, received_host_flags, d2)

_create_host_flags_dict(received_host_flags, new_host_flags_dict) ==
    LET d == CreateFlagsLoop(host_flags_list, received_host_flags,
                             new_host_flags_dict)
    IN IF \/ "consistent_lun" \notin DictKeys(received_host_flags)
          \/ IsFalse(DictGet(received_host_flags, "consistent_lun"))
          \/ InStrs(DictGet(received_host_flags, "consistent_lun"),
                    {"unset", "Unset", "false", "False"})
       THEN _disable_consistent_lun(d)
       ELSE _enable_consistent_lun(d)

RECURSIVE DefaultLoop(_, _)
DefaultLoop(todo, d) ==
    IF todo = {} THEN d
    ELSE LET flag == CHOOSE n \in todo : TRUE
         IN DefaultLoop(todo \ {flag}, _set_to_default(flag, d))

_create_default_host_flags_dict(current_flags) ==
    _disable_consistent_lun(DefaultLoop(host_flags_list, current_flags))

(***************************************************************************)
(* Texts: str.split(',') and re.sub(r'\(.*?\)', '', flag)                  *)
(***************************************************************************)
RECURSIVE SplitFrom(_, _, _)
\* text[i..] split at ",", cur being the token read so far
SplitFrom(text, i, cur) ==
    IF i > Len(text) THEN <<cur>>
    ELSE IF text[i] = "," THEN <<cur>> \o SplitFrom(text, i + 1, <<>>)
    ELSE SplitFrom(text, i + 1, Append(cur, text[i]))

Split(text) == SplitFrom(text, 1, <<>>)

\* the place of the first ")" at or after i, 0 when there is none
RECURSIVE FindClose(_, _)
FindClose(tok, i) ==
    IF i > Len(tok) THEN 0
    ELSE IF tok[i] = ")" THEN i
    ELSE FindClose(tok, i + 1)

\* every leftmost shortest "( ... )" removed
RECURSIVE StripFrom(_, _)
StripFrom(tok, i) ==
    IF i > Len(tok) THEN <<>>
    ELSE IF tok[i] = "(" /\ FindClose(tok, i + 1) # 0
         THEN StripFrom(tok, FindClose(tok, i + 1) + 1)
         ELSE <<tok[i]>> \o StripFrom(tok, i + 1)

\* faulty variant: the annotation is left on the name
StripParens_Keeps(flag) == flag

StripParens(flag) == StripFrom(flag, 1)

\* the string a stripped token is: a token of one symbol is that symbol; any
\* other text is the name of no flag and stands here as one opaque string
TokenString(tok) ==
    IF Len(tok) = 0 THEN ""
    ELSE IF Len(tok) = 1 THEN tok[1] ELSE "<text>"

\* one loop of _recreate_host_flag_dict over the tokens of a text, in order
RECURSIVE RecreateLoop(_, _, _, _)
RecreateLoop(tokens, i, enable, d) ==
    IF i > Len(tokens) THEN d
    ELSE LET flag == tokens[i]
             d2 == IF Len(flag) > 0
                   THEN IF enable
                        THEN _set_to_enable(TokenString(StripParens(flag)), d)
                        ELSE _set_to_disable(TokenString(StripParens(flag)), d)
                   ELSE d
         IN RecreateLoop(tokens, i + 1, enable, d2)

_recreate_host_flag_dict(host, current_flags) ==
    LET d0 == _create_default_host_flags_dict(current_flags)
        d1 == RecreateLoop(Split(host.enabled_flags), 1, TRUE, d0)
        d2 == RecreateLoop(Split(host.disabled_flags), 1, FALSE, d1)
    IN IF host.consistent_lun = FALSE
       THEN _disable_consistent_lun(d2)
       ELSE _enable_consistent_lun(d2)

\* the loop of modify_host_flags over the raw dict, in insertion order
RECURSIVE OverlayLoop(_, _, _)
OverlayLoop(received_host_flags, i, d) ==
    IF i > Len(received_host_flags) THEN d
    ELSE LET flag == received_host_flags[i][1]
             v == received_host_flags[i][2]
             d2 == IF flag # "consistent_lun"
                   THEN IF IsTrue(v) \/ InStrs(v, {"True", "true"})
                        THEN _set_to_enable(flag, d)
                        ELSE IF IsFalse(v) \/ InStrs(v, {"false", "False"})
                             THEN _set_to_disable(flag, d)
                             ELSE _set_to_default(flag, d)
                   ELSE IF \/ IsFalse(v)
                           \/ InStrs(v, {"False", "false", "unset", "Unset"})
                        THEN _disable_consistent_lun(d)
                        ELSE _enable_consistent_lun(d)
         IN OverlayLoop(received_host_flags, i + 1, d2)

\* faulty variant: the overlay starts from the all-default dict
NewFlagsDict_FromDefault(host, received_host_flags) ==
    OverlayLoop(received_host_flags, 1,
                _create_default_host_flags_dict(EmptyDict))

\* modify_host_flags up to the comparison: the flag dict it would send,
\* computed from the record get_host returned
NewFlagsDict(host, received_host_flags) ==
    LET current_flags == _recreate_host_flag_dict(host, EmptyDict)
    IN OverlayLoop(received_host_flags, 1, current_flags)

(***************************************************************************)
(* Initiator lists                                                         *)
(***************************************************************************)
SeqToSet(s) == {s[i] : i \in 1..Len(s)}
\* list(a set): the order Python gives is not specified; the model lists the
\* elements in InitiatorOrder
SetToList(S) == SelectSeq(InitiatorOrder, LAMBDA x : x \in S)

\* faulty variant: every requested initiator is added
_get_add_initiators_All(existing, requested) == SetToList(SeqToSet(requested))

\* faulty variant: the requested list is filtered, not turned into a set
_get_add_initiators_Filtered(existing, requested) ==
    SelectSeq(requested, LAMBDA x : x \notin SeqToSet(existing))

_get_add_initiators(existing, requested) ==
    LET all_inits == existing \o requested
    IN SetToList(SeqToSet(all_inits) \ SeqToSet(existing))

\* faulty variant: every requested initiator is removed
_get_remove_initiators_All(existing, requested) ==
    SetToList(SeqToSet(requested))

_get_remove_initiators(existing, requested) ==
    SetToList(SeqToSet(existing) \cap SeqToSet(requested))

(***************************************************************************)
(* The remote array: the host records, by name.  A record is what get_host *)
(* reports; it has the key "initiator" only when the host has initiators.  *)
(***************************************************************************)
HostInits(h) == IF "initiator" \in DOMAIN h THEN SeqToSet(h.initiator) ELSE {}

HostRecord(hostId, inits, enabled_flags, disabled_flags, consistent_lun, views) ==
    LET base == [hostId |-> hostId, enabled_flags |-> enabled_flags,
                 disabled_flags |-> disabled_flags,
                 consistent_lun |-> consistent_lun,
                 num_of_masking_views |-> views]
    IN IF inits = {} THEN base
       ELSE [k \in (DOMAIN base) \cup {"initiator"} |->
                IF k = "initiator" THEN SetToList(inits) ELSE base[k]]

WithInits(h, inits) ==
    HostRecord(h.hostId, inits, h.enabled_flags, h.disabled_flags,
               h.consistent_lun, h.num_of_masking_views)

\* the text in which the remote lists the flags of d that are in state st
RECURSIVE FormatFrom(_, _, _)
FormatFrom(d, st, i) ==
    IF i > Len(KeyOrder) THEN <<>>
    ELSE LET rest == FormatFrom(d, st, i + 1)
         IN IF KeyOrder[i] \in DOMAIN d /\ d[KeyOrder[i]] = st
            THEN IF rest = <<>> THEN <<Display(KeyOrder[i])>>
                 ELSE <<Display(KeyOrder[i]), ",">> \o rest
            ELSE rest

FormatFlags(d, st) == FormatFrom(d, st, 1)

WithFlags(h, d) ==
    HostRecord(h.hostId, HostInits(h), FormatFlags(d, EnabledState),
               FormatFlags(d, DisabledState), d["consistent_lun"],
               h.num_of_masking_views)

\* provisioning.create_host: the host must not exist yet
CanCreate(r, host_name) == host_name \notin DOMAIN r
RemoteCreate(r, host_name, initiator_list, host_flags) ==
    LET inits == IF initiator_list = None THEN {}
                 ELSE SeqToSet(initiator_list[1])
        blank == HostRecord(host_name, inits, <<>>, <<>>, FALSE, 0)
        h == IF host_flags = None THEN blank ELSE WithFlags(blank, host_flags[1])
    IN [n \in (DOMAIN r) \cup {host_name} |-> IF n = host_name THEN h ELSE r[n]]

\* provisioning.modify_host: the host must exist
CanModify(r, host_name) == host_name \in DOMAIN r
RemoteAddInitiators(r, host_name, add_init_list) ==
    [r EXCEPT ![host_name] = WithInits(@, HostInits(@) \cup SeqToSet(add_init_list))]

RemoteRemoveInitiators(r, host_name, remove_init_list) ==
    [r EXCEPT ![host_name] = WithInits(@, HostInits(@) \ SeqToSet(remove_init_list))]

RemoteSetFlags(r, host_name, host_flag_dict) ==
    [r EXCEPT ![host_name] = WithFlags(@, host_flag_dict)]

\* provisioning.modify_host(new_name=...): the new name must be free
CanRename(r, host_name, new_name) ==
    host_name \in DOMAIN r /\ new_name \notin DOMAIN r
RemoteRename(r, host_name, new_name) ==
    [n \in ((DOMAIN r) \ {host_name}) \cup {new_name} |->
        IF n = new_name THEN [r[host_name] EXCEPT !.hostId = new_name]
        ELSE r[n]]

\* provisioning.delete_host: a host in a masking view cannot be deleted
CanDelete(r, host_name) ==
    host_name \in DOMAIN r /\ r[host_name].num_of_masking_views = 0
RemoteDelete(r, host_name) == [n \in (DOMAIN r) \ {host_name} |-> r[n]]

(***************************************************************************)
(* State                                                                   *)
(***************************************************************************)
VARIABLES
    remote,   \* the array: host name -> host record
    params,   \* params[p]: module.params of the task process p runs
    pc,       \* pc[p]: the statement of perform_module_operation p is at
    host,     \* host[p]: the local `host` (None or the record fetched first)
    changed,  \* changed[p]: the local `changed`
    result,   \* result[p]: None, or what exit_json reported
    conn,     \* conn[p]: the state of u4v_conn
    calls,    \* calls[p]: the remote calls of the current run, in order
    runs,     \* runs[p]: how many runs of its task p has started
    prev,     \* prev[p]: how the run before the current one ended
    faults,   \* how many more calls of provisioning.get_host will raise
    direct    \* the arguments and results of a helper that is called directly

vars ==
    <<remote, params, pc, host, changed, result, conn, calls, runs, prev,
      faults, direct>>

MutationOps ==
    {"Create", "AddInitiators", "RemoveInitiators", "SetFlags", "Rename",
     "Delete"}

Call(op, name, inits, flags, new_name, ok, res) ==
    [op |-> op, name |-> name, inits |-> inits, flags |-> flags,
     new_name |-> new_name, ok |-> ok, res |-> res]

FetchCall(name, ok, res) == Call("Fetch", name, None, None, "", ok, res)

(***************************************************************************)
(* Inputs                                                                  *)
(***************************************************************************)
ReqLists == UNION {[1..n -> Initiators] : n \in 0..MaxReq}
InitiatorInputs == {None} \cup {Some(l) : l \in ReqLists}
InitiatorStates == {None, Some("present-in-host"), Some("absent-in-host")}
NewNameInputs == {None} \cup {Some(n) : n \in Names}
States == {"present", "absent"}

RawKeys == {"scsi_3", "consistent_lun", "scsi3"}
RawValues == {PyBool(TRUE), PyBool(FALSE), PyStr("unset"), PyStr("yes")}
FlagInputs ==
    {None, Some(<<>>)}
    \cup {Some(<< <<k, v>> >>) : k \in RawKeys, v \in RawValues}

TaskInputs ==
    [host_name : {"H1"}, new_name : NewNameInputs,
     initiators : InitiatorInputs, initiator_state : InitiatorStates,
     host_flags : FlagInputs, state : States]

\* tasks of the flag rules
MaxFlagKeys == 2
FlagKeys == {"scsi_3", "SCSI_3", "openvms", "consistent_lun", "scsi3"}
FlagValues ==
    {PyBool(TRUE), PyBool(FALSE), PyStr("True"), PyStr("false"),
     PyStr("Unset"), PyStr("yes")}
\* dicts of at most n keys, in every insertion order
RECURSIVE RawDicts(_)
RawDicts(n) ==
    IF n = 0 THEN {<<>>}
    ELSE LET shorter == RawDicts(n - 1)
         IN shorter \cup
            {Append(d, <<k, v>>) :
                d \in {x \in shorter : Len(x) = n - 1},
                k \in FlagKeys, v \in FlagValues}

DistinctKeys(raw) == \A i, j \in 1..Len(raw) : raw[i][1] = raw[j][1] => i = j

FlagTasks ==
    [host_name : {"H1"}, new_name : {None}, initiators : {None},
     initiator_state : {None},
     host_flags : {Some(d) : d \in {x \in RawDicts(MaxFlagKeys) : DistinctKeys(x)}},
     state : {"present"}]

\* the task of a process that runs nothing
IdleTask ==
    [host_name |-> "H1", new_name |-> None, initiators |-> None,
     initiator_state |-> None, host_flags |-> None, state |-> "present"]

\* flag reports of the hosts the array holds at the start
InitReports ==
    {[enabled_flags |-> <<>>, disabled_flags |-> <<>>,
      consistent_lun |-> FALSE],
     [enabled_flags |-> <<"SCSI_3", "(", "Ovrd", ")">>,
      disabled_flags |-> <<"OpenVMS">>, consistent_lun |-> TRUE]}

InitHosts(name) ==
    {HostRecord(name, i, f.enabled_flags, f.disabled_flags, f.consistent_lun, v) :
        i \in {{}, {"a"}, {"a", "b"}}, f \in InitReports, v \in {0, 1}}

FlagReports ==
    InitReports \cup
    {[enabled_flags |-> <<"OpenVMS", ",", "SCSI_3">>, disabled_flags |-> <<>>,
      consistent_lun |-> FALSE],
     [enabled_flags |-> <<>>,
      disabled_flags |-> <<"SCSI_3", "(", "Ovrd", ")", ",", "SCSI3">>,
      consistent_lun |-> TRUE]}

FlagRemotes ==
    {EmptyDict} \cup
    {[n \in {"H1"} |->
         HostRecord("H1", {}, f.enabled_flags, f.disabled_flags, f.consistent_lun, 0)] :
        f \in FlagReports}

InitRemotes ==
    {r \in UNION {[D -> UNION {InitHosts(n) : n \in Names}] : D \in SUBSET Names} :
        /\ \A n \in DOMAIN r : r[n].hostId = n
        /\ "H2" \in DOMAIN r => r["H2"] = HostRecord("H2", {}, <<>>, <<>>, FALSE, 0)}

(***************************************************************************)
(* Python truth values of the parameters                                   *)
(***************************************************************************)
\* `if x:` for an optional list or dict
Truthy(opt) == opt # None /\ opt[1] # <<>>
\* `if x:` for an optional string
TruthyStr(opt) == opt # None /\ opt[1] # ""

(***************************************************************************)
(* get_host: the record, or None when the host is not found; when          *)
(* provisioning.get_host raised, the exception is logged and the result is *)
(* None as well.  The call raises only while `faults` is not used up.      *)
(***************************************************************************)
\* whether a call of provisioning.get_host may raise now
Raises == IF faults > 0 THEN {FALSE, TRUE} ELSE {FALSE}

get_host(r, host_name, raised) ==
    IF raised THEN None
    ELSE IF host_name \in DOMAIN r THEN Some(r[host_name]) ELSE None

\* what a call of get_host does to `faults`
Fetched(raised) == faults' = IF raised THEN faults - 1 ELSE faults

(***************************************************************************)
(* Leaving a step                                                          *)
(***************************************************************************)
\* faulty variant: fail_json returns and the run goes on
show_error_exit_Returns(p, resume) ==
    /\ conn' = [conn EXCEPT ![p] = "closed"]
    /\ pc' = [pc EXCEPT ![p] = resume]

\* show_error_exit: closes the connection; fail_json ends the process.
\* resume is where control would be had fail_json returned.
show_error_exit(p, resume) ==
    /\ conn' = [conn EXCEPT ![p] = "closed"]
    /\ pc' = [pc EXCEPT ![p] = "failed"]

\* the step is over: `changed` gets its new value, control moves on
StepDone(p, next, new_changed, new_calls) ==
    /\ pc' = [pc EXCEPT ![p] = next]
    /\ changed' = [changed EXCEPT ![p] = new_changed]
    /\ calls' = [calls EXCEPT ![p] = @ \o new_calls]
    /\ UNCHANGED <<params, host, result, conn, runs, prev, direct>>

\* a remote call of the step raised: show_error_exit
StepFail(p, resume, new_calls) ==
    /\ show_error_exit(p, resume)
    /\ calls' = [calls EXCEPT ![p] = @ \o new_calls]
    /\ UNCHANGED <<remote, params, host, changed, result, runs, prev, direct>>

\* faulty variant: `changed = x`, the earlier value forgotten
OrChanged_Forgets(x, old_changed) == x

\* `x or changed`
OrChanged(x, old_changed) == x \/ old_changed

(***************************************************************************)
(* perform_module_operation, one action per statement                      *)
(***************************************************************************)
\* host = self.get_host(host_name); changed = False
GetHostStep(p) ==
    /\ pc[p] = "get_host"
    /\ \E raised \in Raises :
          LET h == get_host(remote, params[p].host_name, raised)
          IN /\ host' = [host EXCEPT ![p] = h]
             /\ changed' = [changed EXCEPT ![p] = FALSE]
             /\ calls' = [calls EXCEPT ![p] =
                             Append(@, FetchCall(params[p].host_name,
                                                 ~raised, h))]
             /\ Fetched(raised)
    /\ pc' = [pc EXCEPT ![p] = "create"]
    /\ UNCHANGED <<remote, params, result, conn, runs, prev, direct>>

\* faulty variant: the guard asks the array again instead of reading `host`
CreateGuard_Rechecks(p) ==
    /\ params[p].state = "present"
    /\ params[p].host_name \notin DOMAIN remote
    /\ params[p].host_name # ""

\* if state == 'present' and not host and host_name
CreateGuard(p) ==
    /\ params[p].state = "present"
    /\ host[p] = None
    /\ params[p].host_name # ""

\* faulty variant: the initiators are passed on whatever initiator_state is
CreateInitiators_Keeps(prm) == prm.initiators

\* create_host: the initiators it passes on
CreateInitiators(prm) ==
    IF prm.initiator_state = Some("absent-in-host") \/ prm.initiator_state = None
    THEN None
    ELSE prm.initiators

\* create_host: the flag dict it passes on
CreateFlags(prm) ==
    IF Truthy(prm.host_flags)
    THEN Some(_create_host_flags_dict(prm.host_flags[1], EmptyDict))
    ELSE None

create_host(p, next) ==
    LET host_name == params[p].host_name
        initiators == CreateInitiators(params[p])
        new_host_flags_dict == CreateFlags(params[p])
        call(ok) == Call("Create", host_name, initiators, new_host_flags_dict,
                         "", ok, None)
    IN /\ \/ /\ CanCreate(remote, host_name)
             /\ remote' = RemoteCreate(remote, host_name, initiators,
                                       new_host_flags_dict)
             /\ StepDone(p, next, TRUE, <<call(TRUE)>>)
          \/ StepFail(p, next, <<call(FALSE)>>)
       /\ UNCHANGED faults

CreateStep(p) ==
    /\ pc[p] = "create"
    /\ IF CreateGuard(p) THEN create_host(p, "add")
       ELSE /\ StepDone(p, "add", changed[p], <<>>)
            /\ UNCHANGED <<remote, faults>>

\* if state == 'present' and host and intiator_state == 'present-in-host'
\*    and initiators and len(initiators) > 0
AddGuard(p) ==
    /\ params[p].state = "present"
    /\ host[p] # None
    /\ params[p].initiator_state = Some("present-in-host")
    /\ Truthy(params[p].initiators)
    /\ Len(params[p].initiators[1]) > 0

\* existing_inits of add_host_initiators and remove_host_initiators
ExistingInits(h) ==
    IF h # None /\ "initiator" \in DOMAIN h[1] THEN h[1].initiator ELSE <<>>

add_host_initiators(p, next) ==
    \E raised \in Raises :
      LET host_name == params[p].host_name
          initiators == params[p].initiators[1]
          h == get_host(remote, host_name, raised)
          existing_inits == ExistingInits(h)
          add_list == _get_add_initiators(existing_inits, initiators)
          fetch == FetchCall(host_name, ~raised, h)
          call(ok) == Call("AddInitiators", host_name, Some(add_list), None,
                           "", ok, None)
      IN /\ Fetched(raised)
         /\ IF /\ initiators # <<>>
               /\ SeqToSet(initiators) \subseteq SeqToSet(existing_inits)
            THEN /\ StepDone(p, next, OrChanged(FALSE, changed[p]), <<fetch>>)
                 /\ UNCHANGED remote
            ELSE IF Len(add_list) > 0
                 THEN \/ /\ CanModify(remote, host_name)
                         /\ remote' = RemoteAddInitiators(remote, host_name,
                                                          add_list)
                         /\ StepDone(p, next, OrChanged(TRUE, changed[p]),
                                     <<fetch, call(TRUE)>>)
                      \/ StepFail(p, next, <<fetch, call(FALSE)>>)
                 ELSE /\ StepDone(p, next, OrChanged(FALSE, changed[p]),
                                  <<fetch>>)
                      /\ UNCHANGED remote

AddStep(p) ==
    /\ pc[p] = "add"
    /\ IF AddGuard(p) THEN add_host_initiators(p, "remove")
       ELSE /\ StepDone(p, "remove", changed[p], <<>>)
            /\ UNCHANGED <<remote, faults>>

\* faulty variant: initiator_state is not looked at
RemoveGuard_AnyInitiatorState(p) ==
    /\ params[p].state = "present"
    /\ host[p] # None
    /\ Truthy(params[p].initiators)
    /\ Len(params[p].initiators[1]) > 0

\* if state == 'present' and host and intiator_state == 'absent-in-host'
\*    and initiators and len(initiators) > 0
RemoveGuard(p) ==
    /\ params[p].state = "present"
    /\ host[p] # None
    /\ params[p].initiator_state = Some("absent-in-host")
    /\ Truthy(params[p].initiators)
    /\ Len(params[p].initiators[1]) > 0

remove_host_initiators(p, next) ==
    \E raised \in Raises :
      LET host_name == params[p].host_name
          initiators == params[p].initiators[1]
          h == get_host(remote, host_name, raised)
          existing_inits == ExistingInits(h)
          remove_list == _get_remove_initiators(existing_inits, initiators)
          fetch == FetchCall(host_name, ~raised, h)
          call(ok) == Call("RemoveInitiators", host_name, Some(remove_list),
                           None, "", ok, None)
      IN /\ Fetched(raised)
         /\ IF Len(existing_inits) = 0
            THEN /\ StepDone(p, next, OrChanged(FALSE, changed[p]), <<fetch>>)
                 /\ UNCHANGED remote
            ELSE IF Len(remove_list) > 0
                 THEN \/ /\ CanModify(remote, host_name)
                         /\ remote' = RemoteRemoveInitiators(remote, host_name,
                                                             remove_list)
                         /\ StepDone(p, next, OrChanged(TRUE, changed[p]),
                                     <<fetch, call(TRUE)>>)
                      \/ StepFail(p, next, <<fetch, call(FALSE)>>)
                 ELSE /\ StepDone(p, next, OrChanged(FALSE, changed[p]),
                                  <<fetch>>)
                      /\ UNCHANGED remote

RemoveStep(p) ==
    /\ pc[p] = "remove"
    /\ IF RemoveGuard(p) THEN remove_host_initiators(p, "flags")
       ELSE /\ StepDone(p, "flags", changed[p], <<>>)
            /\ UNCHANGED <<remote, faults>>

\* if state == 'present' and host and host_flags
FlagsGuard(p) ==
    /\ params[p].state = "present"
    /\ host[p] # None
    /\ Truthy(params[p].host_flags)

modify_host_flags(p, next) ==
    \E raised \in Raises :
      LET host_name == params[p].host_name
          received_host_flags == params[p].host_flags[1]
          h == get_host(remote, host_name, raised)
          fetch == FetchCall(host_name, ~raised, h)
      IN /\ Fetched(raised)
         /\ IF h = None
            THEN \* host['enabled_flags'] on None: a TypeError nothing catches
                 /\ pc' = [pc EXCEPT ![p] = "crashed"]
                 /\ calls' = [calls EXCEPT ![p] = Append(@, fetch)]
                 /\ UNCHANGED <<remote, params, host, changed, result, conn,
                                runs, prev, direct>>
            ELSE LET current_flags == _recreate_host_flag_dict(h[1], EmptyDict)
                     new_flags_dict == NewFlagsDict(h[1], received_host_flags)
                     call(ok) == Call("SetFlags", host_name, None,
                                      Some(new_flags_dict), "", ok, None)
                 IN IF new_flags_dict = current_flags
                    THEN /\ StepDone(p, next, OrChanged(FALSE, changed[p]),
                                     <<fetch>>)
                         /\ UNCHANGED remote
                    ELSE \/ /\ CanModify(remote, host_name)
                            /\ remote' = RemoteSetFlags(remote, host_name,
                                                        new_flags_dict)
                            /\ StepDone(p, next, OrChanged(TRUE, changed[p]),
                                        <<fetch, call(TRUE)>>)
                         \/ StepFail(p, next, <<fetch, call(FALSE)>>)

FlagsStep(p) ==
    /\ pc[p] = "flags"
    /\ IF FlagsGuard(p) THEN modify_host_flags(p, "rename")
       ELSE /\ StepDone(p, "rename", changed[p], <<>>)
            /\ UNCHANGED <<remote, faults>>

\* faulty variant: new_name is compared with host_name, `host` is not read
RenameGuard_NoHost(p) ==
    /\ params[p].state = "present"
    /\ TruthyStr(params[p].new_name)
    /\ params[p].host_name # params[p].new_name[1]

\* faulty variant: the name is not compared
RenameGuard_NoCompare(p) ==
    /\ params[p].state = "present"
    /\ host[p] # None
    /\ TruthyStr(params[p].new_name)

\* if state == 'present' and host and new_name: if host['hostId'] != new_name
RenameGuard(p) ==
    /\ params[p].state = "present"
    /\ host[p] # None
    /\ TruthyStr(params[p].new_name)
    /\ host[p][1].hostId # params[p].new_name[1]

rename_host(p, next) ==
    LET host_name == params[p].host_name
        new_name == params[p].new_name[1]
        call(ok) == Call("Rename", host_name, None, None, new_name, ok, None)
    IN /\ \/ /\ CanRename(remote, host_name, new_name)
             /\ remote' = RemoteRename(remote, host_name, new_name)
             /\ StepDone(p, next, TRUE, <<call(TRUE)>>)
          \/ StepFail(p, next, <<call(FALSE)>>)
       /\ UNCHANGED faults

RenameStep(p) ==
    /\ pc[p] = "rename"
    /\ IF RenameGuard(p) THEN rename_host(p, "delete")
       ELSE /\ StepDone(p, "delete", changed[p], <<>>)
            /\ UNCHANGED <<remote, faults>>

\* faulty variant: the state is not looked at
DeleteGuard_AnyState(p) == host[p] # None

\* if state == 'absent' and host
DeleteGuard(p) ==
    /\ params[p].state = "absent"
    /\ host[p] # None

delete_host(p, next) ==
    LET host_name == params[p].host_name
        call(ok) == Call("Delete", host_name, None, None, "", ok, None)
    IN /\ \/ /\ CanDelete(remote, host_name)
             /\ remote' = RemoteDelete(remote, host_name)
             /\ StepDone(p, next, OrChanged(TRUE, changed[p]), <<call(TRUE)>>)
          \/ StepFail(p, next, <<call(FALSE)>>)
       /\ UNCHANGED faults

DeleteStep(p) ==
    /\ pc[p] = "delete"
    /\ IF DeleteGuard(p) THEN delete_host(p, "result")
       ELSE /\ StepDone(p, "result", changed[p], <<>>)
            /\ UNCHANGED <<remote, faults>>

\* _create_result_dict: the name the final record is fetched under
ResultName(prm) ==
    IF TruthyStr(prm.new_name) THEN prm.new_name[1] ELSE prm.host_name

\* self._create_result_dict(changed); close_connection; exit_json
ResultStep(p) ==
    /\ pc[p] = "result"
    /\ IF params[p].state = "absent"
       THEN /\ result' = [result EXCEPT ![p] =
                             Some([changed |-> changed[p],
                                   host_details |-> Some(EmptyDict)])]
            /\ UNCHANGED <<calls, faults>>
       ELSE \E raised \in Raises :
               LET h == get_host(remote, ResultName(params[p]), raised)
               IN /\ result' = [result EXCEPT ![p] =
                                   Some([changed |-> changed[p],
                                         host_details |-> h])]
                  /\ calls' = [calls EXCEPT ![p] =
                                  Append(@, FetchCall(ResultName(params[p]),
                                                      ~raised, h))]
                  /\ Fetched(raised)
    /\ conn' = [conn EXCEPT ![p] = "closed"]
    /\ pc' = [pc EXCEPT ![p] = "exit"]
    /\ UNCHANGED <<remote, params, host, changed, runs, prev, direct>>

\* main(): after a run that ended well, the same task is run again, in a
\* new process
Rerun(p) ==
    /\ pc[p] = "exit"
    /\ runs[p] < MaxRuns
    /\ runs' = [runs EXCEPT ![p] = @ + 1]
    /\ prev' = [prev EXCEPT ![p] = [status |-> pc[p], calls |-> calls[p]]]
    /\ pc' = [pc EXCEPT ![p] = "get_host"]
    /\ host' = [host EXCEPT ![p] = None]
    /\ changed' = [changed EXCEPT ![p] = FALSE]
    /\ result' = [result EXCEPT ![p] = None]
    /\ conn' = [conn EXCEPT ![p] = "open"]
    /\ calls' = [calls EXCEPT ![p] = <<>>]
    /\ UNCHANGED <<remote, params, faults, direct>>

(***************************************************************************)
(* Specification: one process runs its task, MaxRuns times at most, on an  *)
(* array nobody else changes                                               *)
(***************************************************************************)
InitOf(tasks, remotes) ==
    /\ remote \in remotes
    /\ \E t \in tasks : params = [p \in Procs |-> IF p = 1 THEN t ELSE IdleTask]
    /\ pc = [p \in Procs |-> IF p = 1 THEN "get_host" ELSE "idle"]
    /\ host = [p \in Procs |-> None]
    /\ changed = [p \in Procs |-> FALSE]
    /\ result = [p \in Procs |-> None]
    /\ conn = [p \in Procs |-> IF p = 1 THEN "open" ELSE "closed"]
    /\ calls = [p \in Procs |-> <<>>]
    /\ runs = [p \in Procs |-> IF p = 1 THEN 1 ELSE 0]
    /\ prev = [p \in Procs |-> [status |-> "none", calls |-> <<>>]]

\* no helper is called directly
NoDirect == [helper |-> "none"]

Init ==
    /\ InitOf(TaskInputs, InitRemotes)
    /\ faults = 0
    /\ direct = NoDirect

Next ==
    \E p \in Procs :
        \/ GetHostStep(p)
        \/ CreateStep(p)
        \/ AddStep(p)
        \/ RemoveStep(p)
        \/ FlagsStep(p)
        \/ RenameStep(p)
        \/ DeleteStep(p)
        \/ ResultStep(p)
        \/ Rerun(p)

Spec == Init /\ [][Next]_vars

(***************************************************************************)
(* Specification of the flag rules: tasks that give only host_flags, with  *)
(* more keys and more values, on a host with any of FlagReports, or none   *)
(***************************************************************************)
InitFlags ==
    /\ InitOf(FlagTasks, FlagRemotes)
    /\ faults = 0
    /\ direct = NoDirect

SpecFlags == InitFlags /\ [][Next]_vars

(***************************************************************************)
(* Specification of the initiator lists: _get_add_initiators and           *)
(* _get_remove_initiators called directly, once each, on lists of at most  *)
(* MaxReq initiators in any order, with duplicates                         *)
(***************************************************************************)
DirectInputs ==
    [helper : {"initiators"}, existing : ReqLists, requested : ReqLists,
     add_inits : {None}, rem_inits : {None}]

CallGetAddInitiators ==
    /\ direct.helper = "initiators"
    /\ direct.add_inits = None
    /\ direct' = [direct EXCEPT !.add_inits =
                     Some(_get_add_initiators(direct.existing,
                                              direct.requested))]
    /\ UNCHANGED <<remote, params, pc, host, changed, result, conn, calls,
                   runs, prev, faults>>

CallGetRemoveInitiators ==
    /\ direct.helper = "initiators"
    /\ direct.rem_inits = None
    /\ direct' = [direct EXCEPT !.rem_inits =
                     Some(_get_remove_initiators(direct.existing,
                                                 direct.requested))]
    /\ UNCHANGED <<remote, params, pc, host, changed, result, conn, calls,
                   runs, prev, faults>>

InitDirect ==
    /\ remote = EmptyDict
    /\ params = [p \in Procs |-> IdleTask]
    /\ pc = [p \in Procs |-> "idle"]
    /\ host = [p \in Procs |-> None]
    /\ changed = [p \in Procs |-> FALSE]
    /\ result = [p \in Procs |-> None]
    /\ conn = [p \in Procs |-> "closed"]
    /\ calls = [p \in Procs |-> <<>>]
    /\ runs = [p \in Procs |-> 0]
    /\ prev = [p \in Procs |-> [status |-> "none", calls |-> <<>>]]
    /\ faults = 0
    /\ direct \in DirectInputs

NextDirect == CallGetAddInitiators \/ CallGetRemoveInitiators

SpecDirect == InitDirect /\ [][NextDirect]_vars

(***************************************************************************)
(* Specification of the fetch errors: provisioning.get_host raises at most *)
(* MaxFaults times, at any of the calls of get_host                        *)
(***************************************************************************)
MaxFaults == 1

FetchTasks ==
    [host_name : {"H1"}, new_name : {None, Some("H2")},
     initiators : {None, Some(<<"a">>)}, initiator_state : InitiatorStates,
     host_flags : {None, Some(<< <<"scsi_3", PyBool(TRUE)>> >>)},
     state : States]

FetchRemotes == {EmptyDict} \cup {[n \in {"H1"} |-> h] : h \in InitHosts("H1")}

InitFetch ==
    /\ InitOf(FetchTasks, FetchRemotes)
    /\ faults = MaxFaults
    /\ direct = NoDirect

SpecFetch == InitFetch /\ [][Next]_vars

(***************************************************************************)
(* Specification of the create rule: tasks that create H1 with one raw     *)
(* flag, its value spelt in every letter case the rule may meet            *)
(***************************************************************************)
CreateKeys == {"scsi_3", "openvms", "consistent_lun"}
CreateValues ==
    {PyBool(TRUE), PyBool(FALSE), PyStr("unset"), PyStr("Unset"),
     PyStr("UNSET"), PyStr("false"), PyStr("False"), PyStr("FALSE"),
     PyStr("true"), PyStr("yes")}

CreateTasks ==
    [host_name : {"H1"}, new_name : {None}, initiators : {None},
     initiator_state : {None},
     host_flags : {Some(<< <<k, v>> >>) : k \in CreateKeys, v \in CreateValues},
     state : {"present"}]

InitCreate ==
    /\ InitOf(CreateTasks, {EmptyDict})
    /\ faults = 0
    /\ direct = NoDirect

SpecCreate == InitCreate /\ [][Next]_vars

(***************************************************************************)
(* Specification of two concurrent runs: both processes run a task on the  *)
(* host name H1 at the same time, their remote calls interleaved           *)
(***************************************************************************)
RaceTasks ==
    {[IdleTask EXCEPT !.state = "present"],
     [IdleTask EXCEPT !.state = "present", !.initiators = Some(<<"a">>),
                      !.initiator_state = Some("present-in-host")],
     [IdleTask EXCEPT !.state = "present",
                      !.host_flags = Some(<< <<"scsi_3", PyBool(TRUE)>> >>)],
     [IdleTask EXCEPT !.state = "absent"]}

RaceRemotes ==
    {EmptyDict,
     [n \in {"H1"} |-> HostRecord("H1", {}, <<>>, <<>>, FALSE, 0)]}

InitRace ==
    /\ remote \in RaceRemotes
    /\ params \in [Procs -> RaceTasks]
    /\ pc = [p \in Procs |-> "get_host"]
    /\ host = [p \in Procs |-> None]
    /\ changed = [p \in Procs |-> FALSE]
    /\ result = [p \in Procs |-> None]
    /\ conn = [p \in Procs |-> "open"]
    /\ calls = [p \in Procs |-> <<>>]
    /\ runs = [p \in Procs |-> 1]
    /\ prev = [p \in Procs |-> [status |-> "none", calls |-> <<>>]]
    /\ faults = 0
    /\ direct = NoDirect

SpecRace == InitRace /\ [][Next]_vars

(***************************************************************************)
(* Properties                                                              *)
(***************************************************************************)
Running == {p \in Procs : pc[p] # "idle"}

CallsOf(p, op) == {i \in 1..Len(calls[p]) : calls[p][i].op = op}
Issued(p, op) == CallsOf(p, op) # {}
Mutations(cs) == {i \in 1..Len(cs) : cs[i].op \in MutationOps}
TheCall(p, op) == calls[p][CHOOSE i \in CallsOf(p, op) : TRUE]

\* the statement p is at comes after the given step of the run
PastCreate(p) == pc[p] \in {"add", "remove", "flags", "rename", "delete",
                            "result", "exit", "failed", "crashed"}
PastAdd(p) == PastCreate(p) /\ pc[p] # "add"
PastRemove(p) == PastAdd(p) /\ pc[p] # "remove"
PastFlags(p) == pc[p] \in {"rename", "delete", "result", "exit"}
PastRename(p) == pc[p] \in {"delete", "result", "exit"}
PastDelete(p) == pc[p] \in {"result", "exit", "failed", "crashed"}

Reported(p) == result[p][1]

\* C1: when a run has ended well and the same task is run again with nobody
\* else changing the array, the second run issues no mutation call and
\* reports changed = false.
C1_SecondRunIdle ==
    \A p \in Running :
        (prev[p].status = "exit" /\ pc[p] = "exit")
            => /\ Mutations(calls[p]) = {}
               /\ ~Reported(p).changed

\* C2: at every statement of a run that has not failed, `changed` is true
\* exactly when a mutation call has been issued in the run, and the run
\* reports that value: no step resets what an earlier step set.
C2_ChangedIffMutated ==
    \A p \in Running :
        pc[p] \notin {"failed", "crashed"}
            => /\ changed[p] <=> (Mutations(calls[p]) # {})
               /\ pc[p] = "exit" => Reported(p).changed = changed[p]

\* a run that added initiators, then found the flags as asked for, ended well
C2_Witness ==
    \E p \in Running :
        /\ pc[p] = "exit"
        /\ Reported(p).changed
        /\ Issued(p, "AddInitiators")
        /\ FlagsGuard(p)
        /\ ~Issued(p, "SetFlags")

\* the flags the raw dict names: _set_to_* lowers the name it is given
NamedFlags(raw) == {Lower(k) : k \in DictKeys(raw)}

\* the baseline of a SetFlags call: rebuilt from the record fetched just
\* before the call
BaselineOf(p, i) == _recreate_host_flag_dict(calls[p][i - 1].res[1], EmptyDict)

\* C3: the flag dict of every SetFlags call equals the baseline rebuilt from
\* the remote report at every key (consistent_lun too) the raw dict does
\* not name; only named flags may differ.
C3_FlagOverlay ==
    \A p \in Running : \A i \in CallsOf(p, "SetFlags") :
        LET sent == calls[p][i].flags[1]
            base == BaselineOf(p, i)
        IN \A k \in ((DOMAIN sent) \cup (DOMAIN base))
                       \ NamedFlags(params[p].host_flags[1]) :
              /\ k \in DOMAIN sent
              /\ k \in DOMAIN base
              /\ sent[k] = base[k]

\* a SetFlags call on a host with an overridden flag and consistent_lun set,
\* neither of them named by the raw dict
C3_Witness ==
    \E p \in Running : \E i \in CallsOf(p, "SetFlags") :
        LET named == NamedFlags(params[p].host_flags[1])
            base == BaselineOf(p, i)
        IN /\ calls[p][i].ok
           /\ "consistent_lun" \notin named
           /\ base["consistent_lun"]
           /\ \E k \in host_flags_list \ named : base[k] # DefaultState

\* C4: after a run whose flags step issued SetFlags, the flags step of a
\* second run with the same raw dict finds the flags as asked for: it issues
\* no SetFlags call and leaves `changed` false.
C4_SecondRunNoSetFlags ==
    \A p \in Running :
        (/\ prev[p].status = "exit"
         /\ \E i \in 1..Len(prev[p].calls) : prev[p].calls[i].op = "SetFlags"
         /\ FlagsGuard(p)
         /\ pc[p] \in {"rename", "failed"})
            => /\ ~Issued(p, "SetFlags")
               /\ ~changed[p]

\* C5: when the first fetch finds no host, the state is present and the
\* name is not empty, exactly one Create call is issued, with the requested
\* initiators when initiator_state is present-in-host and None otherwise,
\* with the flag dict of the create rule (all eight flags and
\* consistent_lun) when host_flags is given and None otherwise; the run then
\* reports changed = true.
C5_CreateStep ==
    \A p \in Running :
        (/\ PastCreate(p)
         /\ host[p] = None
         /\ params[p].state = "present"
         /\ params[p].host_name # "")
            => /\ Cardinality(CallsOf(p, "Create")) = 1
               /\ LET c == TheCall(p, "Create")
                  IN /\ c.name = params[p].host_name
                     /\ c.inits =
                           IF params[p].initiator_state = Some("present-in-host")
                           THEN params[p].initiators ELSE None
                     /\ IF params[p].host_flags \in {None, Some(<<>>)}
                        THEN c.flags = None
                        ELSE /\ c.flags # None
                             /\ c.flags[1] =
                                   _create_host_flags_dict(
                                       params[p].host_flags[1], EmptyDict)
                             /\ DOMAIN c.flags[1] =
                                   host_flags_list \cup {"consistent_lun"}
               /\ pc[p] # "failed" => changed[p]
               /\ pc[p] = "exit" => Reported(p).changed

\* the scenario of the specification: initiators given with present-in-host
\* on an array without the host
C5_Witness ==
    \E p \in Running :
        /\ pc[p] = "exit"
        /\ host[p] = None
        /\ Issued(p, "Create")
        /\ TheCall(p, "Create").inits = Some(<<"a">>)
        /\ TheCall(p, "Create").flags # None
        /\ Reported(p).changed

\* the members the membership step found: its fetch is the second call
StepMembers(p) == SeqToSet(ExistingInits(calls[p][2].res))
Requested(p) == SeqToSet(params[p].initiators[1])

\* the conditions of the add step, in the words of the claim
AddCase(p) ==
    /\ params[p].state = "present"
    /\ host[p] # None
    /\ params[p].initiator_state = Some("present-in-host")
    /\ params[p].initiators # None
    /\ params[p].initiators[1] # <<>>

\* C6: in the add step, when every requested initiator is a member already
\* no AddInitiators call is issued and `changed` stays as it was; otherwise
\* exactly one AddInitiators call is issued, with exactly the requested
\* initiators that are not members, and `changed` becomes true.
C6_AddStep ==
    \A p \in Running :
        (PastAdd(p) /\ AddCase(p))
            => IF Requested(p) \subseteq StepMembers(p)
               THEN /\ ~Issued(p, "AddInitiators")
                    /\ pc[p] = "remove" => ~changed[p]
               ELSE /\ Cardinality(CallsOf(p, "AddInitiators")) = 1
                    /\ LET l == TheCall(p, "AddInitiators").inits[1]
                       IN /\ SeqToSet(l) = Requested(p) \ StepMembers(p)
                          /\ Len(l) = Cardinality(SeqToSet(l))
                    /\ pc[p] # "failed" => changed[p]

\* some requested initiators were members, others were added
C6_Witness ==
    \E p \in Running :
        /\ pc[p] = "exit"
        /\ AddCase(p)
        /\ Requested(p) \cap StepMembers(p) # {}
        /\ Issued(p, "AddInitiators")
        /\ TheCall(p, "AddInitiators").inits = Some(<<"b">>)

\* the conditions of the remove step, in the words of the claim
RemoveCase(p) ==
    /\ params[p].state = "present"
    /\ host[p] # None
    /\ params[p].initiator_state = Some("absent-in-host")
    /\ params[p].initiators # None
    /\ params[p].initiators[1] # <<>>

\* C7: in the remove step, when the host has no initiators or none of the
\* requested ones is a member, no RemoveInitiators call is issued, the step
\* raises no error and `changed` stays as it was; otherwise exactly one
\* RemoveInitiators call is issued, with exactly the members that are
\* requested, and `changed` becomes true.
C7_RemoveStep ==
    \A p \in Running :
        (PastRemove(p) /\ RemoveCase(p))
            => IF Requested(p) \cap StepMembers(p) = {}
               THEN /\ ~Issued(p, "RemoveInitiators")
                    /\ pc[p] = "flags" => ~changed[p]
                    /\ pc[p] = "failed"
                          => calls[p][Len(calls[p])].op \in {"SetFlags", "Rename"}
               ELSE /\ Cardinality(CallsOf(p, "RemoveInitiators")) = 1
                    /\ LET l == TheCall(p, "RemoveInitiators").inits[1]
                       IN /\ SeqToSet(l) = Requested(p) \cap StepMembers(p)
                          /\ Len(l) = Cardinality(SeqToSet(l))
                    /\ pc[p] # "failed" => changed[p]

\* a member was removed, another requested initiator was no member
C7_Witness ==
    \E p \in Running :
        /\ pc[p] = "exit"
        /\ RemoveCase(p)
        /\ Requested(p) \ StepMembers(p) # {}
        /\ Issued(p, "RemoveInitiators")
        /\ TheCall(p, "RemoveInitiators").inits = Some(<<"a">>)

\* the conditions of the rename step, in the words of the claim
RenameCase(p) ==
    /\ host[p] # None
    /\ params[p].state = "present"
    /\ params[p].new_name # None
    /\ params[p].new_name[1] # params[p].host_name

\* C8: a run that has come past the rename step has issued a Rename call
\* exactly when the host exists, the state is present, new_name is given and
\* differs from the name of the host; no run issues Rename otherwise, and
\* with new_name equal to the name the step leaves `changed` as it was.
C8_RenameStep ==
    \A p \in Running :
        /\ Issued(p, "Rename") => RenameCase(p)
        /\ PastRename(p) => (Issued(p, "Rename") <=> RenameCase(p))
        /\ (pc[p] = "delete" /\ params[p].new_name = Some(params[p].host_name))
              => (changed[p] <=>
                     \E op \in MutationOps \ {"Rename"} : Issued(p, op))

\* a run that renamed the host, and ended well
C8_Witness ==
    \E p \in Running :
        /\ pc[p] = "exit"
        /\ Issued(p, "Rename")
        /\ TheCall(p, "Rename").new_name = "H2"
        /\ "H2" \in DOMAIN remote

\* C9: no run issues Delete and another mutation; a run past the delete
\* step has issued Delete exactly when the state is absent and the first
\* fetch found the host; with the state absent and no host found the run
\* issues no mutation and reports changed = false.
C9_DeleteExclusive ==
    \A p \in Running :
        /\ Issued(p, "Delete")
              => \A i \in Mutations(calls[p]) : calls[p][i].op = "Delete"
        /\ PastDelete(p)
              => (Issued(p, "Delete")
                    <=> (params[p].state = "absent" /\ host[p] # None))
        /\ (params[p].state = "absent" /\ host[p] = None /\ pc[p] = "exit")
              => /\ Mutations(calls[p]) = {}
                 /\ ~Reported(p).changed

\* a host deleted by a task that also names initiators, flags and a new name
C9_Witness ==
    \E p \in Running :
        /\ pc[p] = "exit"
        /\ Issued(p, "Delete")
        /\ params[p].initiator_state = Some("present-in-host")
        /\ Truthy(params[p].initiators)
        /\ Truthy(params[p].host_flags)
        /\ params[p].new_name = Some("H2")
        /\ Reported(p).changed

\* C10: a mutation call that returned an error is the last remote call of
\* its run: the run is in the failed state, with no later mutation, no final
\* fetch, no compensating call and no result reported.
C10_FailedMutationFatal ==
    \A p \in Running : \A i \in Mutations(calls[p]) :
        ~calls[p][i].ok
            => /\ i = Len(calls[p])
               /\ pc[p] = "failed"
               /\ result[p] = None

\* Delete refused for a host in a masking view, in a run that had the host
C10_Witness ==
    \E p \in Running :
        /\ pc[p] = "failed"
        /\ Issued(p, "Delete")
        /\ ~TheCall(p, "Delete").ok
        /\ params[p].host_name \in DOMAIN remote
        /\ remote[params[p].host_name].num_of_masking_views = 1

\* C11: a Fetch call that returned an error ends its run: no mutation call
\* is issued after it, no result is reported, and the run ends in the
\* failed state.
C11_FetchErrorFatal ==
    \A p \in Running : \A i \in CallsOf(p, "Fetch") :
        ~calls[p][i].ok
            => /\ \A j \in Mutations(calls[p]) : j < i
               /\ result[p] = None
               /\ pc[p] \in {"exit", "failed", "crashed"} => pc[p] = "failed"

\* the last remote call of the run
LastCall(p) == calls[p][Len(calls[p])]

\* C12: a run that ended well with the state present made its final fetch
\* under the name the host has at the end of the run: new_name when the run
\* issued Rename, host_name otherwise.
C12_FinalSnapshotName ==
    \A p \in Running :
        (pc[p] = "exit" /\ params[p].state = "present")
            => /\ LastCall(p).op = "Fetch"
               /\ LastCall(p).name =
                     IF Issued(p, "Rename") THEN params[p].new_name[1]
                     ELSE params[p].host_name

\* C13: a run that ended well reports empty host_details exactly when the
\* state is absent; with the state present it reports the record of a host
\* the array holds, never an empty or not-found value.
C13_DetailsEmptyIffAbsent ==
    \A p \in Running :
        pc[p] = "exit"
            => /\ (Reported(p).host_details = Some(EmptyDict))
                     <=> (params[p].state = "absent")
               /\ params[p].state = "present"
                     => /\ Reported(p).host_details # None
                        /\ \E n \in DOMAIN remote :
                              Reported(p).host_details[1] = remote[n]

\* the place of a mutation in the order of the steps
StepRank(op) ==
    CASE op \in {"AddInitiators", "RemoveInitiators"} -> 1
      [] op = "SetFlags" -> 2
      [] op = "Rename" -> 3
      [] OTHER -> 0

\* the calls of the membership, flags and rename steps
StepCalls(p) == {i \in 1..Len(calls[p]) : StepRank(calls[p][i].op) > 0}

\* the fetches the membership and flags steps perform: every Fetch of the
\* run but the first one and the final one
StepFetches(p) ==
    {i \in CallsOf(p, "Fetch") :
        i > 1 /\ ~(pc[p] = "exit" /\ i = Len(calls[p]))}

\* C16: the mutation calls of a run come in the order membership change,
\* SetFlags, Rename, with at most one call of each rank (so never both
\* AddInitiators and RemoveInitiators); every membership and SetFlags call
\* and every fetch of those steps names host_name and comes before Rename.
C16_StepOrder ==
    \A p \in Running :
        /\ \A i, j \in StepCalls(p) :
              i < j => StepRank(calls[p][i].op) < StepRank(calls[p][j].op)
        /\ ~(Issued(p, "AddInitiators") /\ Issued(p, "RemoveInitiators"))
        /\ \A i \in StepCalls(p) \cup StepFetches(p) :
              calls[p][i].op # "Rename"
                 => /\ calls[p][i].name = params[p].host_name
                    /\ \A j \in CallsOf(p, "Rename") : i < j

\* a run that added an initiator, set flags and renamed the host
C16_Witness ==
    \E p \in Running :
        /\ pc[p] = "exit"
        /\ Issued(p, "AddInitiators")
        /\ Issued(p, "SetFlags")
        /\ Issued(p, "Rename")
        /\ StepFetches(p) # {}

\* C17: a run that issues Create issues exactly that one mutation: the
\* guards of the later steps read the record fetched before Create (None),
\* so no AddInitiators, RemoveInitiators, SetFlags or Rename is called, and
\* the host is left under host_name whatever new_name says.
C17_CreateAlone ==
    \A p \in Running :
        Issued(p, "Create")
            => /\ host[p] = None
               /\ Cardinality(Mutations(calls[p])) = 1
               /\ (pc[p] = "exit")
                     => /\ params[p].host_name \in DOMAIN remote
                        /\ remote[params[p].host_name].hostId
                              = params[p].host_name

\* a creating run whose task also names a new name, initiators to remove
\* and flags
C17_Witness ==
    \E p \in Running :
        /\ pc[p] = "exit"
        /\ Issued(p, "Create")
        /\ params[p].new_name = Some("H2")
        /\ "H2" \notin DOMAIN remote
        /\ params[p].initiator_state = Some("absent-in-host")
        /\ Truthy(params[p].initiators)
        /\ Truthy(params[p].host_flags)

\* a string with its letters in lower case
Casefold(s) ==
    CASE s \in {"unset", "Unset", "UNSET"} -> "unset"
      [] s \in {"false", "False", "FALSE"} -> "false"
      [] s \in {"true", "True", "TRUE"} -> "true"
      [] OTHER -> s

\* the state the forward rule gives flag k for the raw dict, as the
\* specification words it
Normalize(raw, k) ==
    IF k \notin DictKeys(raw) THEN DefaultState
    ELSE LET v == DictGet(raw, k)
         IN IF v.kind = "str" /\ Casefold(v.s) = "unset" THEN DefaultState
            ELSE IF IsFalse(v) \/ (v.kind = "str" /\ Casefold(v.s) = "false")
                 THEN DisabledState
                 ELSE EnabledState

\* C14: the flag dict of every Create call gives each of the eight flags
\* the state of the forward rule: Default when the raw dict lacks the flag
\* or has "unset" in any letter case, Disabled for False or "false" in any
\* letter case, Enabled for any other value.
C14_NormalizeRule ==
    \A p \in Running : \A i \in CallsOf(p, "Create") :
        calls[p][i].flags # None
            => \A k \in host_flags_list :
                  /\ k \in DOMAIN calls[p][i].flags[1]
                  /\ calls[p][i].flags[1][k]
                        = Normalize(params[p].host_flags[1], k)

\* C15: the flags step gives every flag the raw dict names the state the
\* create rule gives it for the same raw dict: in each SetFlags call the
\* state of a named flag is the one _create_host_flags_dict computes, so a
\* value that is no synonym of false or unset is Enabled on both paths.
C15_OverlaySameRule ==
    \A p \in Running : \A i \in CallsOf(p, "SetFlags") :
        LET raw == params[p].host_flags[1]
        IN \A k \in DictKeys(raw) \cap host_flags_list :
              calls[p][i].flags[1][k]
                 = _create_host_flags_dict(raw, EmptyDict)[k]

\* the three states of a flag
FlagStates == {EnabledState, DisabledState, DefaultState}

\* C18: the flag dict of every Create and SetFlags call has exactly the
\* eight flags and consistent_lun as its keys, each flag in one of the
\* three states, whatever the raw dict holds.
C18_ClosedKeys ==
    \A p \in Running :
        \A i \in CallsOf(p, "Create") \cup CallsOf(p, "SetFlags") :
            calls[p][i].flags # None
                => /\ DOMAIN calls[p][i].flags[1]
                         = host_flags_list \cup {"consistent_lun"}
                   /\ \A k \in host_flags_list :
                         calls[p][i].flags[1][k] \in FlagStates

\* flag k is named in a list of the report: an entry of the comma-separated
\* text begins with the array's spelling of k
NamedIn(text, k) ==
    \E i \in 1..Len(text) :
        text[i] = Display(k) /\ (i = 1 \/ text[i - 1] = ",")

\* the fetches of the flags step that found the host: the step rebuilds its
\* baseline from their record
FlagsFetches(p) ==
    {i \in StepFetches(p) :
        /\ FlagsGuard(p)
        /\ ~((AddGuard(p) \/ RemoveGuard(p)) /\ i = 2)
        /\ calls[p][i].res # None}

\* C19: the baseline the flags step rebuilds from a report has every flag
\* listed as enabled Enabled, every flag listed as disabled Disabled, every
\* other of the eight flags Default, and consistent_lun as reported; an
\* annotation in parentheses after a name does not change the match.
C19_BaselineFromReport ==
    \A p \in Running : \A i \in FlagsFetches(p) :
        LET report == calls[p][i].res[1]
            current_flags == _recreate_host_flag_dict(report, EmptyDict)
        IN /\ \A k \in host_flags_list :
                 /\ NamedIn(report.enabled_flags, k)
                       => current_flags[k] = EnabledState
                 /\ NamedIn(report.disabled_flags, k)
                       => current_flags[k] = DisabledState
                 /\ (~NamedIn(report.enabled_flags, k)
                        /\ ~NamedIn(report.disabled_flags, k))
                       => current_flags[k] = DefaultState
           /\ current_flags["consistent_lun"] = report.consistent_lun

\* a baseline rebuilt from a report with an annotated name in the enabled
\* list, a name in the disabled list and consistent_lun set
C19_Witness ==
    \E p \in Running : \E i \in FlagsFetches(p) :
        LET report == calls[p][i].res[1]
        IN /\ pc[p] = "exit"
           /\ NamedIn(report.enabled_flags, "scsi_3")
           /\ \E j \in 1..Len(report.enabled_flags) :
                 report.enabled_flags[j] = "("
           /\ NamedIn(report.disabled_flags, "openvms")
           /\ report.consistent_lun

\* a list without duplicates
NoDuplicates(l) == Len(l) = Cardinality(SeqToSet(l))

\* C20: for all lists existing and requested, _get_add_initiators gives the
\* requested initiators that are not existing (so none that is existing),
\* _get_remove_initiators gives the existing ones that are requested,
\* neither with duplicates, and both give the empty list for an empty
\* requested list.
C20_InitiatorAlgebra ==
    direct.helper = "initiators"
        => LET e == SeqToSet(direct.existing)
               r == SeqToSet(direct.requested)
           IN /\ direct.add_inits # None
                    => /\ SeqToSet(direct.add_inits[1]) = r \ e
                       /\ SeqToSet(direct.add_inits[1]) \cap e = {}
                       /\ NoDuplicates(direct.add_inits[1])
                       /\ direct.requested = <<>>
                             => direct.add_inits[1] = <<>>
              /\ direct.rem_inits # None
                    => /\ SeqToSet(direct.rem_inits[1]) = e \cap r
                       /\ NoDuplicates(direct.rem_inits[1])
                       /\ direct.requested = <<>>
                             => direct.rem_inits[1] = <<>>

\* both helpers called on lists with a duplicate and in another order than
\* the results have
C20_Witness ==
    /\ direct.helper = "initiators"
    /\ direct.existing = <<"b", "b">>
    /\ direct.requested = <<"b", "a">>
    /\ direct.add_inits = Some(<<"a">>)
    /\ direct.rem_inits = Some(<<"b">>)

\* C21: a run that has ended has closed its connection, whether it ended
\* well, by a remote call that failed, or by a fetch that failed inside the
\* membership or the flags step.
C21_ConnectionReleased ==
    \A p \in Running :
        pc[p] \in {"exit", "failed", "crashed"} => conn[p] = "closed"

\* what the first fetch of the run reported
FirstFetch(p) == calls[p][1].res

\* C22: a run decides its mutations from its own first fetch and does not
\* look at the array again before it acts: with another run at work on the
\* same host name, it has issued Create exactly when that fetch found no
\* host, and any other mutation only when it found one, whatever the other
\* run has done to the host since.  So a mutation can be issued after the
\* other run's mutation has made the fetch untrue (C22_Witness).
C22_DecidedFromFetch ==
    \A p \in Running :
        /\ (PastCreate(p) /\ params[p].state = "present")
              => (Issued(p, "Create") <=> FirstFetch(p) = None)
        /\ \A i \in Mutations(calls[p]) :
              calls[p][i].op # "Create" => FirstFetch(p) # None

\* one run found the host and went on to add an initiator; by the time of
\* its add step the other run had deleted the host (the fetch of the step
\* found nothing), and AddInitiators was issued all the same
C22_Witness ==
    \E p, q \in Running :
        /\ p # q
        /\ params[p].host_name = params[q].host_name
        /\ Issued(q, "Delete")
        /\ TheCall(q, "Delete").ok
        /\ Issued(p, "AddInitiators")
        /\ FirstFetch(p) # None
        /\ \E i \in CallsOf(p, "AddInitiators") :
              /\ calls[p][i - 1].op = "Fetch"
              /\ calls[p][i - 1].res = None
        /\ params[p].host_name \notin DOMAIN remote

====
